---------------------------- MODULE Spec2Model ----------------------------
(***************************************************************************)
(* ETH conversion backend V2 (server.js): an express server that signs and  *)
(* broadcasts a transfer from a process-held wallet.                        *)
(*                                                                          *)
(* State: the two module-level handles `provider` and `wallet`, the startup *)
(* bootstrap, and one record per request being handled.  Every `await` of   *)
(* the source is a step boundary: the code between two awaits is one action.*)
(*                                                                          *)
(* Amounts.  The chain counts in wei, JavaScript in floating-point ETH.     *)
(* The model scales both down: one ETH is WeiPerEth wei, and a JavaScript   *)
(* number is a whole count of "quanta", NumPerWei of them to the wei, so    *)
(* that a number can be finer than the chain's unit (as 1e-19 is in the     *)
(* source) and parseEther can refuse it.  Rounding of doubles is not        *)
(* modelled.                                                                *)
(***************************************************************************)
EXTENDS Integers, Sequences, FiniteSets, TLC

(*************************** bounds of the model ***************************)
\* Requests the server admits in one behaviour.
MaxRequests == 3
\* Requests admitted in one behaviour with requests in flight together.
MaxRaceRequests == 2

(**************************** program constants ****************************)
TREASURY == "0x4024Fd78E2AD5532FBF3ec2B3eC83870FAe45fC7"
RPC_URLS == << "https://ethereum-rpc.publicnode.com", "https://eth.drpc.org",
               "https://rpc.ankr.com/eth", "https://eth.llamarpc.com" >>
\* ethers' unit: wei per ETH (10^18 in ethers, scaled down here).
WeiPerEth == 1000
\* Resolution of a JavaScript number below one wei.
NumPerWei == 2
NumPerEth == NumPerWei * WeiPerEth
\* The literal 0.002 of the gas guard, in quanta.
MinGas == (2 * NumPerEth) \div 1000
\* The literal 0.01 of the amount default, in quanta.
DefaultAmount == NumPerEth \div 100
\* The gasLimit of the transaction.
GasLimit == 21000
ChainId == 1

(****************************** JS values **********************************)
\* A body field: absent (undefined), a number, a numeric string, a string
\* that is no number, or the empty string.  val is quanta for amounts.
Undefined == [kind |-> "undefined", val |-> 0, str |-> ""]
Num(n) == [kind |-> "number", val |-> n, str |-> ""]
NumStr(n) == [kind |-> "numstr", val |-> n, str |-> "numeric"]
Str(s) == [kind |-> "string", val |-> 0, str |-> s]

\* JavaScript truthiness, as `||` tests it.
Truthy(v) ==
    CASE v.kind = "undefined" -> FALSE
      [] v.kind = "number" -> v.val # 0
      [] v.kind = "numstr" -> TRUE
      [] v.kind = "string" -> v.str # ""

\* a || b
Or(a, b) == IF Truthy(a) THEN a ELSE b

\* parseFloat: a number or NaN.
NaN == [nan |-> TRUE, n |-> 0]
ParseFloat(v) ==
    IF v.kind \in {"number", "numstr"} THEN [nan |-> FALSE, n |-> v.val] ELSE NaN

\* ethers.formatEther followed by parseFloat: wei to a JavaScript number.
BalanceETH(wei) == wei * NumPerWei

\* Number.prototype.toString followed by ethers.parseEther: a number of ETH
\* to wei; parseEther throws on a fraction finer than one wei.
ParseEtherThrows(x) == x % NumPerWei # 0
ParseEther(x) == x \div NumPerWei

\* ethers.formatEther: the decimal string of a wei amount, as its whole and
\* fractional digits.
FormatEther(wei) == [whole |-> wei \div WeiPerEth, frac |-> wei % WeiPerEth]

\* Number.prototype.toFixed(6): six decimals, rounded half up.
ToFixed6(x) ==
    LET rest == ((x % NumPerEth) * 1000000 + NumPerEth \div 2) \div NumPerEth
        micro == (x \div NumPerEth) * 1000000 + rest
    IN  [whole |-> micro \div 1000000, frac |-> micro % 1000000]

Min(a, b) == IF a <= b THEN a ELSE b


(************************* provider and wallet *****************************)
\* A network client: the object `new ethers.JsonRpcProvider(rpc, ...)` built
\* for candidate number rpc by bootstrap run `by` (0 is the startup run, n
\* the run of request n).  Null is the handle's initial null.
Null == [rpc |-> 0, by |-> -1]
Client(owner, i) == [rpc |-> i, by |-> owner]
\* A signer: the object `new ethers.Wallet(PRIVATE_KEY, provider)`.
NullW == [by |-> -1, provider |-> Null]
Wallet(owner, p) == [by |-> owner, provider |-> p]
\* wallet.address: derived from the key alone.
Address == "0xWALLET"

(***************************** requests ************************************)
AliasPaths == {"/send-eth", "/withdraw", "/transfer", "/coinbase-withdraw"}
ConvertPaths == {"/convert"} \cup AliasPaths

Body(amountETH, amount, to, toAddress, treasury) ==
    [amountETH |-> amountETH, amount |-> amount, to |-> to,
     toAddress |-> toAddress, treasury |-> treasury]
EmptyBody == Body(Undefined, Undefined, Undefined, Undefined, Undefined)

\* Amount fields tried: <<amountETH, amount>>, in quanta.
AmountInputs ==
    { <<Undefined, Undefined>>,            \* neither supplied
      <<Undefined, Str("abc")>>,           \* not a number
      <<Undefined, Num(0)>>,               \* zero
      <<Undefined, Num(-100)>>,            \* negative
      <<Undefined, Num(1)>>,               \* finer than one wei
      <<Undefined, Num(100)>>,             \* 0.05
      <<Num(4000), Undefined>>,            \* 2.0
      <<Num(0), Num(100)>>,                \* amountETH falsy, amount used
      <<NumStr(0), Num(100)>>,             \* "0" is truthy and parses to 0
      <<Str("abc"), Num(100)>>,            \* amountETH truthy, not a number
      <<Num(100), Num(4000)>>,             \* amountETH before amount
      <<Str(""), Str("abc")>>,             \* amountETH empty, amount no number
      <<Str(""), Num(100)>> }              \* amountETH empty, amount used
\* Destination fields tried: <<to, toAddress, treasury>>.
DestInputs ==
    { <<Undefined, Undefined, Undefined>>,
      <<Str("0xA"), Undefined, Undefined>>,
      <<Undefined, Str("0xB"), Undefined>>,
      <<Undefined, Undefined, Str("0xC")>>,
      <<Str("0xA"), Str("0xB"), Str("0xC")>>,
      <<Undefined, Str("0xB"), Str("0xC")>>,
      <<Str(""), Str("0xB"), Undefined>>,
      <<Str(""), Undefined, Undefined>> }
\* Every amount with the default destination, every destination with 0.05.
Bodies ==
    { Body(a[1], a[2], Undefined, Undefined, Undefined) : a \in AmountInputs }
    \cup { Body(Undefined, Num(100), d[1], d[2], d[3]) : d \in DestInputs }
AliasBodies ==
    { EmptyBody, Body(Num(4000), Undefined, Undefined, Str("0xB"), Undefined),
      Body(Undefined, Num(-100), Undefined, Undefined, Undefined) }

Req(method, path, body) == [method |-> method, path |-> path, body |-> body]
GetRequests == { Req("GET", p, EmptyBody) : p \in {"/balance", "/status", "/health"} }
\* The requests of a behaviour with one request in flight at a time.
FullRequests ==
    { Req("POST", "/convert", b) : b \in Bodies }
    \cup { Req("POST", p, b) : p \in AliasPaths, b \in AliasBodies }
    \cup GetRequests
\* The requests of a behaviour with requests in flight together.
CoreRequests ==
    { Req("POST", "/convert", EmptyBody), Req("POST", "/transfer", EmptyBody) }
    \cup GetRequests

\* The requests of a behaviour that sets an alias route beside /convert: slot 1
\* is given the alias requests, slot 2 the direct ones.
AliasRequests == { Req("POST", p, b) : p \in AliasPaths, b \in AliasBodies }
DirectRequests == { Req("POST", "/convert", b) : b \in AliasBodies } \cup GetRequests

\* Balances a read may return, in wei: below the reserve, the reserve
\* exactly, just above it, and 1.0 ETH.
BalanceReads == {1, 2, 3, 1000}
\* With requests in flight together, every read returns 1.0 ETH.
RaceReads == {1000}
GasPrices == {30}
\* Receipts a confirmation may bring: the block number and the gas used.
Receipts == { [blockNumber |-> 1, gasUsed |-> GasLimit] }

\* What a failing call may throw (e.message).
ErrorsOf(op) ==
    CASE op = "broadcastTransaction" -> {"network error", "nonce too low"}
      [] op = "signTransaction" -> {"invalid address"}
      [] op = "parseEther" -> {"too many decimals for format"}
      [] op = "wait" -> {"transaction execution reverted"}
      [] OTHER -> {"network error"}
NullAddressError == "Cannot read properties of null (reading 'address')"

(******************************* state *************************************)
Slots == {1, 2}

VARIABLES
    hasKey,      \* PRIVATE_KEY is configured (process.env.TREASURY_PRIVATE_KEY)
    mode,        \* "serial", "pair": one request in flight at a time; "race": several
    provider,    \* let provider
    wallet,      \* let wallet
    verified,    \* the clients whose getBlockNumber() has resolved
    boot,        \* the startup run of initProvider and app.listen: the candidate
                 \* being probed, those probed so far, and what the run returned
    served,      \* requests admitted so far
    chainNonce,  \* the network's transaction count of the wallet address
    call         \* per slot: the request being handled

vars == <<hasKey, mode, provider, wallet, verified, boot, served, chainNonce, call>>

\* A request's record: pc is the await it is suspended at; entry is whether it
\* found `provider` and `wallet` set at line 48 or 121; log lists the provider and
\* signer calls it has made, obs what each returned or threw, res the
\* responses it has sent.
NoTx == [to |-> "", value |-> -1, nonce |-> -1, gasLimit |-> 0, gasPrice |-> 0, chainId |-> 0]
Idle ==
    [pc |-> "idle", id |-> 0, method |-> "", path |-> "", url |-> "", body |-> EmptyBody,
     i |-> 0, entry |-> [provider |-> FALSE, wallet |-> FALSE],
     balanceETH |-> -1, nonce |-> -1, tx |-> NoTx,
     log |-> <<>>, obs |-> <<>>, res |-> <<>>]

\* What a behaviour of each mode is given: the slots requests may occupy, the
\* requests that arrive, the balances read, and how many requests are admitted.
Open == IF mode = "serial" THEN {1} ELSE Slots
Universe(c) ==
    CASE mode = "serial" -> FullRequests
      [] mode = "race" -> CoreRequests
      [] mode = "pair" -> IF c = 1 THEN AliasRequests ELSE DirectRequests
Reads == IF mode = "race" THEN RaceReads ELSE BalanceReads
Admitted ==
    CASE mode = "serial" -> MaxRequests
      [] mode = "race" -> MaxRaceRequests
      [] mode = "pair" -> Cardinality(Slots)
InFlightLimit == IF mode = "race" THEN Cardinality(Slots) ELSE 1

InitCommon ==
    /\ hasKey \in BOOLEAN
    /\ provider = Null
    /\ wallet = NullW
    /\ verified = {}
    /\ boot = [pc |-> "init", i |-> 0, probed |-> <<>>, ret |-> "pending"]
    /\ served = 0
    /\ chainNonce = 0
    /\ call = [c \in Slots |-> Idle]

\* One request in flight at a time, with every request of FullRequests.
Init == InitCommon /\ mode = "serial"

(***************************** initProvider ********************************)
\* Line 31, `provider = new ethers.JsonRpcProvider(rpc, ...)` for candidate i.
NewProvider(owner, i) == Client(owner, i)

\* Line 33, `if (PRIVATE_KEY) wallet = new ethers.Wallet(PRIVATE_KEY, provider)`:
\* the signer is bound to whatever `provider` holds at that moment.
WalletAfterProbe(owner, key, p, w) == IF key THEN Wallet(owner, p) ELSE w

\* HasNextCandidate stopping one candidate short.
HasNextCandidate_SkipsLast(i) == i < Len(RPC_URLS) - 1

\* Line 29, the loop: whether a candidate follows candidate i.
HasNextCandidate(i) == i < Len(RPC_URLS)

(******************************* startup ***********************************)
\* Line 135, initProvider() up to its first await.
BootStart ==
    /\ boot.pc = "init"
    /\ provider' = NewProvider(0, 1)
    /\ boot' = [boot EXCEPT !.pc = "probe", !.i = 1, !.probed = Append(@, 1)]
    /\ UNCHANGED <<hasKey, mode, wallet, verified, served, chainNonce, call>>

\* The liveness check of the startup run resolves: lines 33-35, then
\* `.then(() => app.listen(...))`.
BootProbeOk ==
    /\ boot.pc = "probe"
    /\ verified' = verified \cup {Client(0, boot.i)}
    /\ wallet' = WalletAfterProbe(0, hasKey, provider, wallet)
    /\ boot' = [boot EXCEPT !.pc = "listening", !.ret = "true"]
    /\ UNCHANGED <<hasKey, mode, provider, served, chainNonce, call>>

\* The liveness check of the startup run rejects: line 36, the next candidate,
\* or line 38 after the last one; app.listen runs either way.
BootProbeFail ==
    /\ boot.pc = "probe"
    /\ IF HasNextCandidate(boot.i)
         THEN /\ provider' = NewProvider(0, boot.i + 1)
              /\ boot' = [boot EXCEPT !.i = boot.i + 1, !.probed = Append(@, boot.i + 1)]
         ELSE /\ boot' = [boot EXCEPT !.pc = "listening", !.i = 0, !.ret = "false"]
              /\ UNCHANGED provider
    /\ UNCHANGED <<hasKey, mode, wallet, verified, served, chainNonce, call>>

(************************** responses and errors ***************************)
\* res.status(s).json(b)
Respond(r, s, b) ==
    [r EXCEPT !.pc = "done", !.res = Append(@, [status |-> s, body |-> b])]

\* The catch block of a handler, lines 107-110 and 124: e.message goes out.
\* CatchBody with a fixed message for e.message.
CatchBody_Generic(msg) == [error |-> "Internal server error"]
CatchBody(msg) == [error |-> msg]
\* Catch without the status.
Catch_Status200(r, msg) == Respond(r, 200, CatchBody(msg))
Catch(r, msg) == Respond(r, 500, CatchBody(msg))

\* What a call returned (ok, val) or threw (msg), as the handler sees it.
Returned(op, v) == [op |-> op, ok |-> TRUE, val |-> v, msg |-> ""]
Threw(op, m) == [op |-> op, ok |-> FALSE, val |-> 0, msg |-> m]
Observe(r, o) == [r EXCEPT !.obs = Append(@, o)]
\* The liveness check of candidate i rejected (line 36 swallows it).
ProbeThrew(i, m) == [op |-> "getBlockNumber", ok |-> FALSE, val |-> i, msg |-> m]
\* Lines 35 and 38: what `await initProvider()` hands back to the handler.
InitProviderReturned(r, ok) == Observe(r, Returned("initProvider", IF ok THEN 1 ELSE 0))

\* An awaited provider or signer call is started.
Await(r, op) == [r EXCEPT !.pc = op, !.log = Append(@, op)]

(**************************** POST /convert ********************************)
\* EthAmount with the two fields tried in the other order.
EthAmount_AmountFirst(body) ==
    LET p == ParseFloat(Or(body.amount, body.amountETH))
    IN  IF p.nan \/ p.n = 0 THEN DefaultAmount ELSE p.n

\* Line 51.
EthAmount(body) ==
    LET p == ParseFloat(Or(body.amountETH, body.amount))
    IN  IF p.nan \/ p.n = 0 THEN DefaultAmount ELSE p.n

\* Destination with toAddress tried before to.
Destination_ToAddressFirst(body) ==
    Or(Or(Or(body.toAddress, body.to), body.treasury), Str(TREASURY)).str

\* Line 52.
Destination(body) ==
    Or(Or(Or(body.to, body.toAddress), body.treasury), Str(TREASURY)).str

\* Line 63.
MaxTransfer(ethAmount, balanceETH) == Min(ethAmount, balanceETH - MinGas)

\* Line 75: the number handed to parseEther.
TxAmount(ethAmount, maxTransfer) == ethAmount

\* Line 103: the amount of the success response.
ReportedAmount(ethAmount, maxTransfer) == ethAmount

\* BelowReserve with half the reserve as the threshold.
BelowReserve_Half(balanceETH) == balanceETH < MinGas \div 2

\* Line 58.
BelowReserve(balanceETH) == balanceETH < MinGas

\* NothingToTransfer letting zero through.
NothingToTransfer_Strict(maxTransfer) == maxTransfer < 0

\* Line 64.
NothingToTransfer(maxTransfer) == maxTransfer <= 0

\* NeedsBootstrap with && for ||.
NeedsBootstrap_Both(p, w) == p = Null /\ w = NullW
\* NeedsBootstrap without its condition.
NeedsBootstrap_Always(p, w) == TRUE

\* Line 48: whether the handler runs initProvider first.
NeedsBootstrap(p, w) == p = Null \/ w = NullW

\* ConvertAfterInit without the `return` of line 49: the handler runs on
\* into `wallet.address` of line 54 and its catch answers again.
ConvertAfterInit_NoReturn(r, w) ==
    IF w = NullW
      THEN Respond(Respond(r, 500, [error |-> "Wallet not configured"]),
                   500, [error |-> NullAddressError])
      ELSE Await(r, "getBalance")

\* ConvertAfterInit going to the nonce without the balance read.
ConvertAfterInit_SkipsBalance(r, w) ==
    IF w = NullW
      THEN Respond(r, 500, [error |-> "Wallet not configured"])
      ELSE Await(r, "getTransactionCount")

\* Lines 49-54, after the bootstrap if any: w is `wallet` at that moment.
ConvertAfterInit(r, w) ==
    IF w = NullW
      THEN Respond(r, 500, [error |-> "Wallet not configured"])
      ELSE Await(r, "getBalance")

\* Lines 55-69, on the balance b (wei) that getBalance returned.
ConvertAfterBalance(r, b) ==
    LET balanceETH == BalanceETH(b)
        r1 == [r EXCEPT !.balanceETH = balanceETH]
    IN  IF BelowReserve(balanceETH)
          THEN Respond(r1, 400, [error |-> "Need 0.002 ETH for gas", balance |-> balanceETH])
          ELSE IF NothingToTransfer(MaxTransfer(EthAmount(r.body), balanceETH))
                 THEN Respond(r1, 400, [error |-> "Insufficient after gas", balance |-> balanceETH])
                 ELSE Await(r1, "getTransactionCount")

\* Lines 73-85, on the fee data: the transaction is built and handed to the
\* signer, unless parseEther throws.
ConvertAfterFee(r, gasPrice) ==
    LET ethAmount == EthAmount(r.body)
        x == TxAmount(ethAmount, MaxTransfer(ethAmount, r.balanceETH))
        m == CHOOSE e \in ErrorsOf("parseEther") : TRUE
    IN  IF ParseEtherThrows(x)
          THEN Catch(Observe(r, Threw("parseEther", m)), m)
          ELSE Await([r EXCEPT !.tx = [to |-> Destination(r.body), value |-> ParseEther(x),
                                       nonce |-> r.nonce, gasLimit |-> GasLimit,
                                       gasPrice |-> gasPrice, chainId |-> ChainId]],
                     "signTransaction")

\* Lines 96-106; the hash of a transaction stands for itself.
SuccessBody(r, receipt) ==
    LET ethAmount == EthAmount(r.body)
    IN  [success |-> TRUE, txHash |-> r.tx, hash |-> r.tx, transactionHash |-> r.tx,
         from |-> Address, to |-> Destination(r.body),
         amount |-> ReportedAmount(ethAmount, MaxTransfer(ethAmount, r.balanceETH)),
         blockNumber |-> receipt.blockNumber, gasUsed |-> receipt.gasUsed]

(***************************** GET /balance ********************************)
\* Line 122, after the bootstrap if any: `wallet.address` of a null wallet
\* throws a TypeError into the catch of line 124.
BalanceAfterInit(r, w) ==
    IF w = NullW
      THEN Catch(Observe(r, Threw("wallet.address", NullAddressError)), NullAddressError)
      ELSE Await(r, "balanceRead")

\* Line 123.
BalanceBody(b) == [wallet |-> Address, balance |-> FormatEther(b), treasury |-> TREASURY]

(***************************** GET /status *********************************)
\* Line 130: bal is 0 unless the balance was read.
StatusBody(w, bal) ==
    [status |-> "online", method |-> "V2-SignBroadcast",
     wallet |-> IF w = NullW THEN "undefined" ELSE Address,
     balance |-> ToFixed6(bal)]

\* StatusReadFailed with the error sent on as the other handlers send it.
StatusReadFailed_Propagates(r, w) == Respond(r, 500, [error |-> "network error"])

\* Lines 128-130 when the read of line 129 throws: `catch (e) {}` leaves bal
\* at its initial 0 and the response goes out as usual.
StatusReadFailed(r, w) == Respond(r, 200, StatusBody(w, 0))

\* Line 133.
HealthBody == [status |-> "healthy"]

\* The handler's code after `await initProvider()`, by route.
AfterInit(r, w) ==
    LET r1 == Observe(r, Returned("wallet", IF w = NullW THEN 0 ELSE 1))
    IN  IF r.url = "/convert" THEN ConvertAfterInit(r1, w) ELSE BalanceAfterInit(r1, w)

(******************************* actions ***********************************)
\* A request is being handled: it has arrived and has not been answered.
InFlight(r) == r.pc \notin {"idle", "done"}

Set(c, r) == call' = [call EXCEPT ![c] = r]

\* A request arrives (after app.listen) and is parsed by express.json.  With
\* requests in flight together its record takes the first free slot.
Request(c) ==
    /\ boot.pc = "listening"
    /\ c \in Open
    /\ call[c].pc \in {"idle", "done"}
    /\ mode = "race" => \A d \in 1..(c - 1) : InFlight(call[d])
    /\ served < Admitted
    /\ Cardinality({d \in Slots : call[d].pc \notin {"idle", "done"}}) < InFlightLimit
    /\ \E q \in Universe(c) :
         Set(c, [Idle EXCEPT !.pc = "route", !.id = served + 1, !.method = q.method,
                             !.path = q.path, !.url = q.path, !.body = q.body])
    /\ served' = served + 1
    /\ UNCHANGED <<hasKey, mode, provider, wallet, verified, boot, chainNonce>>

\* Lines 114-117: `req.url = '/convert'; app._router.handle(req, res)`.
\* AliasTarget with another route's path.
AliasTarget_Balance(url) == "/balance"
AliasTarget(url) == "/convert"
AliasRoute(c) ==
    /\ call[c].pc = "route" /\ call[c].method = "POST" /\ call[c].url \in AliasPaths
    /\ Set(c, [call[c] EXCEPT !.url = AliasTarget(call[c].url)])
    /\ UNCHANGED <<hasKey, mode, provider, wallet, verified, boot, served, chainNonce>>

\* Lines 48 and 121: the handler starts initProvider (line 31, the first
\* candidate) or goes on with the handles as they are.
Enter(c) ==
    LET r == [call[c] EXCEPT !.entry = [provider |-> provider # Null,
                                        wallet |-> wallet # NullW]]
    IN  IF NeedsBootstrap(provider, wallet)
          THEN /\ provider' = NewProvider(r.id, 1)
               /\ Set(c, [Await(r, "getBlockNumber") EXCEPT !.i = 1])
          ELSE /\ Set(c, AfterInit(r, wallet))
               /\ UNCHANGED provider

\* Lines 45-54, up to the first await.
ConvertEntry(c) ==
    /\ call[c].pc = "route" /\ call[c].method = "POST" /\ call[c].url = "/convert"
    /\ Enter(c)
    /\ UNCHANGED <<hasKey, mode, wallet, verified, boot, served, chainNonce>>

\* Lines 119-122, up to the first await.
BalanceEntry(c) ==
    /\ call[c].pc = "route" /\ call[c].method = "GET" /\ call[c].url = "/balance"
    /\ Enter(c)
    /\ UNCHANGED <<hasKey, mode, wallet, verified, boot, served, chainNonce>>

\* The liveness check of a request's bootstrap resolves: lines 33-35, and the
\* handler goes on after `await initProvider()`.
ProbeOk(c) ==
    /\ call[c].pc = "getBlockNumber"
    /\ verified' = verified \cup {Client(call[c].id, call[c].i)}
    /\ wallet' = WalletAfterProbe(call[c].id, hasKey, provider, wallet)
    /\ Set(c, AfterInit(InitProviderReturned(
                           Observe(call[c], Returned("getBlockNumber", call[c].i)), TRUE),
                       wallet'))
    /\ UNCHANGED <<hasKey, mode, provider, boot, served, chainNonce>>

\* The liveness check of a request's bootstrap rejects: line 36, the next
\* candidate, or line 38 and the handler goes on.
ProbeFail(c) ==
    /\ call[c].pc = "getBlockNumber"
    /\ LET r == Observe(call[c], ProbeThrew(call[c].i, "network error"))
       IN  IF HasNextCandidate(r.i)
             THEN /\ provider' = NewProvider(r.id, r.i + 1)
                  /\ Set(c, [Await(r, "getBlockNumber") EXCEPT !.i = r.i + 1])
             ELSE /\ Set(c, AfterInit(InitProviderReturned(r, FALSE), wallet))
                  /\ UNCHANGED provider
    /\ UNCHANGED <<hasKey, mode, wallet, verified, boot, served, chainNonce>>

\* An awaited call of a handler with a catch block rejects; the network
\* answers 'nonce too low' only to a nonce already used.
Throw(c) ==
    /\ call[c].pc \in {"getBalance", "getTransactionCount", "getFeeData",
                       "signTransaction", "broadcastTransaction", "wait", "balanceRead"}
    /\ \E m \in ErrorsOf(call[c].pc) :
         /\ m = "nonce too low" => call[c].tx.nonce < chainNonce
         /\ Set(c, Catch(Observe(call[c], Threw(call[c].pc, m)), m))
    /\ UNCHANGED <<hasKey, mode, provider, wallet, verified, boot, served, chainNonce>>

\* Line 54 resolves.
GetBalanceOk(c) ==
    /\ call[c].pc = "getBalance"
    /\ \E b \in Reads :
         Set(c, ConvertAfterBalance(Observe(call[c], Returned("getBalance", b)), b))
    /\ UNCHANGED <<hasKey, mode, provider, wallet, verified, boot, served, chainNonce>>

\* Line 69 resolves with the pending transaction count; line 70 is called.
GetTransactionCountOk(c) ==
    /\ call[c].pc = "getTransactionCount"
    /\ Set(c, Await([Observe(call[c], Returned("getTransactionCount", chainNonce))
                        EXCEPT !.nonce = chainNonce], "getFeeData"))
    /\ UNCHANGED <<hasKey, mode, provider, wallet, verified, boot, served, chainNonce>>

\* Line 70 resolves; lines 73-85.
GetFeeDataOk(c) ==
    /\ call[c].pc = "getFeeData"
    /\ \E g \in GasPrices :
         Set(c, ConvertAfterFee(Observe(call[c], Returned("getFeeData", g)), g))
    /\ UNCHANGED <<hasKey, mode, provider, wallet, verified, boot, served, chainNonce>>

\* Line 85 resolves; line 89 is called.
SignTransactionOk(c) ==
    /\ call[c].pc = "signTransaction"
    /\ Set(c, Await(Observe(call[c], Returned("signTransaction", 0)), "broadcastTransaction"))
    /\ UNCHANGED <<hasKey, mode, provider, wallet, verified, boot, served, chainNonce>>

\* Line 89 resolves: the network takes one transaction per nonce; line 93.
BroadcastTransactionOk(c) ==
    /\ call[c].pc = "broadcastTransaction"
    /\ call[c].tx.nonce = chainNonce
    /\ chainNonce' = chainNonce + 1
    /\ Set(c, Await(Observe(call[c], Returned("broadcastTransaction", 0)), "wait"))
    /\ UNCHANGED <<hasKey, mode, provider, wallet, verified, boot, served>>

\* Line 93 resolves; lines 96-106.
WaitOk(c) ==
    /\ call[c].pc = "wait"
    /\ \E receipt \in Receipts :
         LET r == Observe(call[c], Returned("wait", receipt.blockNumber))
         IN  Set(c, Respond(r, 200, SuccessBody(r, receipt)))
    /\ UNCHANGED <<hasKey, mode, provider, wallet, verified, boot, served, chainNonce>>

\* Line 122 resolves; line 123.
BalanceReadOk(c) ==
    /\ call[c].pc = "balanceRead"
    /\ \E b \in Reads :
         Set(c, Respond(Observe(call[c], Returned("balanceRead", b)), 200, BalanceBody(b)))
    /\ UNCHANGED <<hasKey, mode, provider, wallet, verified, boot, served, chainNonce>>

\* Lines 127-129: the balance is read only with both handles set.
StatusReads(p, w) == p # Null /\ w # NullW
StatusEntry(c) ==
    /\ call[c].pc = "route" /\ call[c].method = "GET" /\ call[c].url = "/status"
    /\ IF StatusReads(provider, wallet)
         THEN Set(c, Await(call[c], "statusRead"))
         ELSE Set(c, Respond(call[c], 200, StatusBody(wallet, 0)))
    /\ UNCHANGED <<hasKey, mode, provider, wallet, verified, boot, served, chainNonce>>

\* Line 129 resolves; line 130.
StatusReadOk(c) ==
    /\ call[c].pc = "statusRead"
    /\ \E b \in Reads :
         Set(c, Respond(Observe(call[c], Returned("statusRead", b)), 200,
                        StatusBody(wallet, BalanceETH(b))))
    /\ UNCHANGED <<hasKey, mode, provider, wallet, verified, boot, served, chainNonce>>

\* Line 129 rejects: `catch (e) {}` leaves bal at 0; line 130.
StatusReadFail(c) ==
    /\ call[c].pc = "statusRead"
    /\ \E m \in ErrorsOf("getBalance") :
         Set(c, StatusReadFailed(Observe(call[c], Threw("statusRead", m)), wallet))
    /\ UNCHANGED <<hasKey, mode, provider, wallet, verified, boot, served, chainNonce>>

\* HealthEntry answering only with a signer at hand.
HealthEntry_NeedsWallet(c) ==
    /\ call[c].pc = "route" /\ call[c].method = "GET" /\ call[c].url = "/health"
    /\ IF wallet = NullW
         THEN Set(c, Respond(call[c], 503, [status |-> "unhealthy"]))
         ELSE Set(c, Respond(call[c], 200, HealthBody))
    /\ UNCHANGED <<hasKey, mode, provider, wallet, verified, boot, served, chainNonce>>

\* Line 133.
HealthEntry(c) ==
    /\ call[c].pc = "route" /\ call[c].method = "GET" /\ call[c].url = "/health"
    /\ Set(c, Respond(call[c], 200, HealthBody))
    /\ UNCHANGED <<hasKey, mode, provider, wallet, verified, boot, served, chainNonce>>

Next ==
    \/ BootStart
    \/ BootProbeOk
    \/ BootProbeFail
    \/ \E c \in Slots :
         \/ Request(c)
         \/ AliasRoute(c)
         \/ ConvertEntry(c)
         \/ BalanceEntry(c)
         \/ ProbeOk(c)
         \/ ProbeFail(c)
         \/ Throw(c)
         \/ GetBalanceOk(c)
         \/ GetTransactionCountOk(c)
         \/ GetFeeDataOk(c)
         \/ SignTransactionOk(c)
         \/ BroadcastTransactionOk(c)
         \/ WaitOk(c)
         \/ BalanceReadOk(c)
         \/ StatusEntry(c)
         \/ StatusReadOk(c)
         \/ StatusReadFail(c)
         \/ HealthEntry(c)

Spec == Init /\ [][Next]_vars

\* An alias request and a direct one, one after the other in either order, the
\* first one's record kept beside the second's.
InitAlias == InitCommon /\ mode = "pair"
SpecAlias == InitAlias /\ [][Next]_vars

\* Requests in flight together, with the requests of CoreRequests.
InitRace == InitCommon /\ mode = "race"
SpecRace == InitRace /\ [][Next]_vars

\* A step of the request in slot c: the handler's code between two awaits,
\* run when the awaited call has returned or thrown.
HandlerStep(c) ==
    \/ AliasRoute(c)
    \/ ConvertEntry(c)
    \/ BalanceEntry(c)
    \/ ProbeOk(c)
    \/ ProbeFail(c)
    \/ Throw(c)
    \/ GetBalanceOk(c)
    \/ GetTransactionCountOk(c)
    \/ GetFeeDataOk(c)
    \/ SignTransactionOk(c)
    \/ BroadcastTransactionOk(c)
    \/ WaitOk(c)
    \/ BalanceReadOk(c)
    \/ StatusEntry(c)
    \/ StatusReadOk(c)
    \/ StatusReadFail(c)
    \/ HealthEntry(c)

\* Requests in flight together, every awaited call returning or throwing in
\* the end and the event loop then running the handler's continuation.
SpecRaceFair == SpecRace /\ \A c \in Slots : WF_vars(HandlerStep(c))

(***************************************************************************)
(*                              Properties                                  *)
(***************************************************************************)
\* A request to /convert or to one of its aliases.
IsConvert(r) == r.method = "POST" /\ r.path \in ConvertPaths
\* The call has made the provider or signer call op.
Did(r, op) == \E k \in DOMAIN r.log : r.log[k] = op
\* The call's op has returned.
Got(r, op) == \E k \in DOMAIN r.obs : r.obs[k].op = op /\ r.obs[k].ok
\* What op returned to the call.
ValueOf(r, op) == r.obs[CHOOSE k \in DOMAIN r.obs : r.obs[k].op = op /\ r.obs[k].ok].val
\* The balance the call read, as the JavaScript number of ETH.
BalanceRead(r) == ValueOf(r, "getBalance") * NumPerWei
\* The steps of the handler that threw (a failed liveness check is swallowed
\* by initProvider and is no failure of the handler).
Failures(r) == {k \in DOMAIN r.obs : ~r.obs[k].ok /\ r.obs[k].op # "getBlockNumber"}
\* The call has sent the success response.
Succeeded(r) ==
    /\ r.pc = "done" /\ Len(r.res) = 1
    /\ r.res[1].status = 200 /\ "success" \in DOMAIN r.res[1].body
\* The call has sent exactly the response of status s and body b.
Sent(r, s, b) == r.pc = "done" /\ r.res = << [status |-> s, body |-> b] >>
\* The requested amount: the number in the first truthy of amountETH, amount.
Requested(body) == ParseFloat(Or(body.amountETH, body.amount))
\* A field is in the body.
Present(v) == v.kind # "undefined"

\* C1: a /convert call that passed both balance guards and whose requested
\* amount exceeds (balance - 0.002) broadcasts a transaction of value
\* (balance - 0.002), and reports that amount in its success response.
C1_SendsBalanceLessReserve ==
    \A c \in Slots :
      LET r == call[c]
          q == Requested(r.body)
      IN  (IsConvert(r) /\ Did(r, "broadcastTransaction")
             /\ ~q.nan /\ q.n > BalanceRead(r) - MinGas)
          => /\ r.tx.value * NumPerWei = BalanceRead(r) - MinGas
             /\ (Succeeded(r) => r.res[1].body.amount = BalanceRead(r) - MinGas)

\* C2: a /convert call with a positive requested amount whose balance read is
\* at least 0.002 + the amount broadcasts a transaction of exactly the
\* requested value and reports exactly that amount.
C2_SendsRequestedAmount ==
    \A c \in Slots :
      LET r == call[c]
          q == Requested(r.body)
      IN  (IsConvert(r) /\ Got(r, "getBalance") /\ ~q.nan /\ q.n > 0
             /\ BalanceRead(r) >= MinGas + q.n)
          => /\ (Did(r, "signTransaction") => r.tx.value * NumPerWei = q.n)
             /\ (Succeeded(r) => r.res[1].body.amount = q.n)

\* C2 witness: 0.05 requested with a balance of 1.0, sent and reported.
C2_Witness ==
    \E c \in Slots :
      LET r == call[c]
      IN  /\ IsConvert(r) /\ Succeeded(r)
          /\ Requested(r.body) = [nan |-> FALSE, n |-> NumPerEth \div 20]
          /\ BalanceRead(r) = NumPerEth
          /\ Did(r, "broadcastTransaction")
          /\ r.tx.value = WeiPerEth \div 20

\* C3: a /convert call whose balance read is below 0.002 ends with the 400
\* response 'Need 0.002 ETH for gas' carrying the balance read, and fetches
\* no nonce, signs nothing and broadcasts nothing.
C3_BelowReserveRejected ==
    \A c \in Slots :
      LET r == call[c]
      IN  (IsConvert(r) /\ Got(r, "getBalance") /\ BalanceRead(r) < MinGas)
          => /\ Sent(r, 400, [error |-> "Need 0.002 ETH for gas", balance |-> BalanceRead(r)])
             /\ ~Did(r, "getTransactionCount")
             /\ ~Did(r, "signTransaction")
             /\ ~Did(r, "broadcastTransaction")

\* C3 witness: a balance of 0.001 read and refused, whatever was requested.
C3_Witness ==
    \E c \in Slots :
      LET r == call[c]
      IN  /\ IsConvert(r) /\ Got(r, "getBalance")
          /\ BalanceRead(r) = NumPerEth \div 1000
          /\ Requested(r.body).n > NumPerEth
          /\ r.pc = "done" /\ r.res[1].status = 400

\* C4: a /convert call in which min(amount, balance - 0.002) is zero or
\* negative, the amount being ethAmount of line 51, ends with a 400
\* insufficient-funds response and signs and broadcasts nothing; and no
\* transaction of zero or negative value is ever broadcast.
C4_NothingTransferableRejected ==
    \A c \in Slots :
      LET r == call[c]
      IN  /\ (IsConvert(r) /\ Got(r, "getBalance")
                /\ Min(EthAmount(r.body), BalanceRead(r) - MinGas) <= 0)
             => /\ r.pc = "done" /\ Len(r.res) = 1 /\ r.res[1].status = 400
                /\ r.res[1].body.error \in {"Need 0.002 ETH for gas", "Insufficient after gas"}
                /\ r.res[1].body.balance = BalanceRead(r)
                /\ ~Did(r, "signTransaction")
                /\ ~Did(r, "broadcastTransaction")
          /\ (Did(r, "broadcastTransaction") => r.tx.value > 0)

\* C4 witness: a balance of exactly the reserve, refused by the second guard.
C4_Witness ==
    \E c \in Slots :
      LET r == call[c]
      IN  /\ IsConvert(r) /\ Got(r, "getBalance") /\ BalanceRead(r) = MinGas
          /\ Sent(r, 400, [error |-> "Insufficient after gas", balance |-> MinGas])

\* C5: a step of a /convert call that throws ends the call with a 500
\* response carrying the error's message: it is the call's only response, and
\* the step that threw is the last the call made.
C5_FailureAborts ==
    \A c \in Slots :
      LET r == call[c]
      IN  (IsConvert(r) /\ Failures(r) # {})
          => LET last == r.obs[Len(r.obs)]
             IN  /\ Failures(r) = {Len(r.obs)}
                 /\ Sent(r, 500, [error |-> last.msg])
                 /\ last.op \in {"getBalance", "getTransactionCount", "getFeeData",
                                 "signTransaction", "broadcastTransaction", "wait"}
                      => r.log[Len(r.log)] = last.op

\* C5 witness: the confirmation wait throws after the broadcast.
C5_Witness ==
    \E c \in Slots :
      LET r == call[c]
      IN  /\ IsConvert(r) /\ Failures(r) # {}
          /\ r.obs[Len(r.obs)].op = "wait"
          /\ Got(r, "broadcastTransaction")
          /\ r.pc = "done" /\ r.res[1].status = 500

\* C6: a /convert call that finds provider or wallet unset runs the bootstrap
\* before anything else; a call that goes on with the wallet still unset ends
\* with the 500 response 'Wallet not configured' and reads no balance, signs
\* nothing and broadcasts nothing.
C6_BootstrapThenSignerGuard ==
    \A c \in Slots :
      LET r == call[c]
      IN  (IsConvert(r) /\ r.pc \notin {"idle", "route"})
          => /\ (~r.entry.provider \/ ~r.entry.wallet)
                  => (r.log # <<>> /\ r.log[1] = "getBlockNumber")
             /\ (r.pc # "getBlockNumber" /\ wallet = NullW)
                  => /\ Sent(r, 500, [error |-> "Wallet not configured"])
                     /\ ~Did(r, "getBalance")
                     /\ ~Did(r, "signTransaction")
                     /\ ~Did(r, "broadcastTransaction")

\* C6 witness: no key is configured; the call finds the provider set and the
\* wallet unset, bootstraps, and answers 'Wallet not configured'.
C6_Witness ==
    \E c \in Slots :
      LET r == call[c]
      IN  /\ IsConvert(r) /\ r.entry.provider /\ ~r.entry.wallet
          /\ Got(r, "getBlockNumber")
          /\ Sent(r, 500, [error |-> "Wallet not configured"])

\* A field counts as supplied: by being in the body, or only with a truthy value.
Supplied(v, inBody) == IF inBody THEN Present(v) ELSE Truthy(v)
\* The first supplied of the fields vs, or none.
FirstOf(vs, inBody, none) ==
    IF \E k \in DOMAIN vs : Supplied(vs[k], inBody)
      THEN vs[CHOOSE k \in DOMAIN vs :
                /\ Supplied(vs[k], inBody)
                /\ \A j \in 1..(k - 1) : ~Supplied(vs[j], inBody)]
      ELSE none
\* The amount and destination a transaction carries and a success response
\* reports, for either reading of `supplied`: 0.01 when no amount field is
\* supplied or the first supplied one is no number; the first supplied of to,
\* toAddress, treasury, or the hardcoded treasury address.
DefaultsHold(r, inBody) ==
    LET amt == FirstOf(<<r.body.amountETH, r.body.amount>>, inBody, Undefined)
        dst == FirstOf(<<r.body.to, r.body.toAddress, r.body.treasury>>, inBody, Str(TREASURY))
    IN  /\ ParseFloat(amt).nan
          => /\ r.tx.value * NumPerWei = NumPerEth \div 100
             /\ (Succeeded(r) => r.res[1].body.amount = NumPerEth \div 100)
        /\ r.tx.to = dst.str
        /\ (Succeeded(r) => r.res[1].body.to = dst.str)

\* C7 as stated: with no amount field in the body, or the one in the body no
\* number, the amount is 0.01; with none of to, toAddress, treasury in the
\* body the destination is the hardcoded treasury address, otherwise the
\* first of them that is in the body.
C7_FirstSuppliedField ==
    \A c \in Slots :
      (IsConvert(call[c]) /\ Did(call[c], "signTransaction")) => DefaultsHold(call[c], TRUE)

\* C7 as amended: the same, a field counting as supplied only when its value
\* is truthy (an empty string and the number 0 are passed over).
C7_FirstTruthyField ==
    \A c \in Slots :
      (IsConvert(call[c]) /\ Did(call[c], "signTransaction")) => DefaultsHold(call[c], FALSE)

\* C7 witness: an empty `to` beside a toAddress; the transfer goes to toAddress.
C7_Witness ==
    \E c \in Slots :
      LET r == call[c]
      IN  /\ IsConvert(r) /\ Succeeded(r)
          /\ r.body.to = Str("") /\ r.body.toAddress = Str("0xB")
          /\ r.tx.to = "0xB" /\ r.res[1].body.to = "0xB"

\* A step of the request in slot c, once it has arrived.
StepOf(c) == call[c].pc \notin {"idle", "done"} /\ call'[c] # call[c]
HandlesUnchanged == provider' = provider /\ wallet' = wallet
\* Whether the request found both handles set at line 48 or 121.
FoundHandlesSet(r) ==
    IF r.pc = "route" THEN provider # Null /\ wallet # NullW
                      ELSE r.entry.provider /\ r.entry.wallet

\* C8 as stated: no step of a GET /balance, GET /status or GET /health request
\* changes provider or wallet.
C8_ReadOnlyRoutes ==
    [][\A c \in Slots :
         (StepOf(c) /\ call[c].method = "GET") => HandlesUnchanged]_vars

\* C8 as amended: no step of a GET /status or GET /health request changes
\* provider or wallet, and no step of a GET /balance request that found both
\* handles set does.
C8_ReadOnlyUnlessBootstrap ==
    [][\A c \in Slots :
         (StepOf(c) /\ call[c].method = "GET"
            /\ (call[c].path \in {"/status", "/health"} \/ FoundHandlesSet(call[c])))
         => HandlesUnchanged]_vars

\* C8 witness: GET /balance answered with both handles found set.
C8_Witness ==
    \E c \in Slots :
      LET r == call[c]
      IN  /\ r.path = "/balance" /\ r.entry.provider /\ r.entry.wallet
          /\ r.pc = "done" /\ r.res[1].status = 200

\* What a request was given: the handles it found set, the wallet it went on
\* with, and what each call returned or threw, the nonce apart (two
\* transactions of one account never share it).
Given(r) ==
    [entry |-> r.entry,
     obs |-> [k \in DOMAIN r.obs |->
                IF r.obs[k].op = "getTransactionCount"
                  THEN [r.obs[k] EXCEPT !.val = 0] ELSE r.obs[k]]]
\* What a request did: the calls it made and the responses it sent, the nonce
\* apart.
NoNonce(tx) == [tx EXCEPT !.nonce = 0]
Outcome(r) ==
    [log |-> r.log,
     res |-> [k \in DOMAIN r.res |->
                IF "txHash" \in DOMAIN r.res[k].body
                  THEN [r.res[k] EXCEPT !.body.txHash = NoNonce(@), !.body.hash = NoNonce(@),
                                        !.body.transactionHash = NoNonce(@)]
                  ELSE r.res[k]]]

\* C9: a request to an alias route is handed to the /convert handler with its
\* body as it came, and, given the same body and the same returns of the
\* provider and the signer, makes the same calls and sends the same response
\* as a request to /convert; the nonce each signs is the one it fetched.
C9_AliasSameAsConvert ==
    /\ \A c \in Slots :
         LET r == call[c]
         IN  /\ (r.path \in AliasPaths /\ r.url # r.path) => r.url = "/convert"
             /\ (IsConvert(r) /\ Did(r, "signTransaction"))
                  => r.tx.nonce = ValueOf(r, "getTransactionCount")
    /\ \A a, d \in Slots :
         LET x == call[a]
             y == call[d]
         IN  (x.path \in AliasPaths /\ y.path = "/convert"
                /\ x.pc = "done" /\ y.pc = "done"
                /\ x.body = y.body /\ Given(x) = Given(y))
             => Outcome(x) = Outcome(y)

\* C9 witness: an alias request and a /convert request of the same body,
\* given the same, both answered with success.
C9_Witness ==
    \E a, d \in Slots :
      LET x == call[a]
          y == call[d]
      IN  /\ x.path \in AliasPaths /\ y.path = "/convert"
          /\ x.body = y.body /\ Given(x) = Given(y)
          /\ Succeeded(x) /\ Succeeded(y)

\* C10: GET /status always answers 200 with status 'online' and no error, and
\* with balance "0.000000" whenever no balance was read.
C10_StatusNeverErrors ==
    \A c \in Slots :
      LET r == call[c]
      IN  (r.path = "/status" /\ r.pc = "done")
          => /\ Len(r.res) = 1 /\ r.res[1].status = 200
             /\ "error" \notin DOMAIN r.res[1].body
             /\ r.res[1].body.status = "online"
             /\ ~Got(r, "statusRead") => r.res[1].body.balance = [whole |-> 0, frac |-> 0]

\* C10 witness: the balance read of GET /status throws, and it answers with a
\* zero balance.
C10_Witness ==
    \E c \in Slots :
      LET r == call[c]
      IN  /\ r.path = "/status" /\ r.pc = "done"
          /\ r.obs # <<>> /\ ~r.obs[Len(r.obs)].ok
          /\ r.res[1].body.balance = [whole |-> 0, frac |-> 0]


\* C11: GET /health answers 200 with exactly {status: 'healthy'}, as its only
\* response and without a call to the provider or the signer, whatever
\* provider and wallet hold and whatever else is in flight.
C11_HealthFixedPayload ==
    \A c \in Slots :
      LET r == call[c]
      IN  (r.method = "GET" /\ r.path = "/health" /\ r.pc = "done")
          => /\ r.res = << [status |-> 200, body |-> [status |-> "healthy"]] >>
             /\ r.log = <<>>

\* C11 witness: /health answered with the wallet unset while another request
\* is in the middle of a bootstrap.
C11_Witness ==
    \E c, d \in Slots :
      /\ call[c].path = "/health" /\ call[c].pc = "done"
      /\ call[c].res[1].body = [status |-> "healthy"]
      /\ wallet = NullW
      /\ call[d].pc = "getBlockNumber"

\* The request's own run of initProvider has returned false / true.
BootstrapFailed(r) == Got(r, "initProvider") /\ ValueOf(r, "initProvider") = 0
BootstrapSucceeded(r) == Got(r, "initProvider") /\ ValueOf(r, "initProvider") = 1

\* C12: after a run of initProvider in which every candidate failed its
\* liveness check (the startup run before any request, or the run of the
\* latest request), provider and wallet are both null.
C12_TotalFailureLeavesUnset ==
    /\ (boot.ret = "false" /\ served = 0) => (provider = Null /\ wallet = NullW)
    /\ \A c \in Slots :
         BootstrapFailed(call[c]) => (provider = Null /\ wallet = NullW)

\* The calls on `provider` a handler makes after its bootstrap.
ProviderCalls ==
    {"getBalance", "getTransactionCount", "getFeeData", "broadcastTransaction", "balanceRead"}
\* The step starts a call on `provider` by the request in slot c.
CallsProvider(c) ==
    /\ Len(call'[c].log) = Len(call[c].log) + 1
    /\ call'[c].id = call[c].id
    /\ call'[c].log[Len(call'[c].log)] \in ProviderCalls
\* The step is the return of true by a run of initProvider.
ReturnsSuccess ==
    \/ boot.ret # "true" /\ boot'.ret = "true"
    \/ \E c \in Slots : ~BootstrapSucceeded(call[c]) /\ BootstrapSucceeded(call'[c])
\* `provider` is a client whose liveness check succeeded, and the signer, if
\* any, is bound to it.
HandlesSound(p, w, v) == p \in v /\ (w # NullW => w.provider = p)

\* C13: however bootstraps interleave, when a run of initProvider returns
\* true, and whenever the wallet is set, `provider` is a client whose
\* liveness check succeeded and the wallet is bound to that client; and a
\* request whose bootstrap returned true makes its calls on such a client.
C13_BootstrapRaceBenign ==
    [][/\ ReturnsSuccess => HandlesSound(provider', wallet', verified')
       /\ wallet' # NullW => HandlesSound(provider', wallet', verified')
       /\ \A c \in Slots :
            (CallsProvider(c) /\ BootstrapSucceeded(call'[c])) => provider' \in verified'
      ]_vars

\* The call's broadcast was refused: it threw at line 89.
FailedAtBroadcast(r) ==
    /\ r.obs # <<>>
    /\ r.obs[Len(r.obs)].op = "broadcastTransaction" /\ ~r.obs[Len(r.obs)].ok
\* Two /convert calls that have both broadcast a transaction of the same nonce.
SameNonceBroadcast(x, y) ==
    /\ IsConvert(x) /\ IsConvert(y)
    /\ Did(x, "broadcastTransaction") /\ Did(y, "broadcastTransaction")
    /\ x.tx.nonce = y.tx.nonce

\* C14: nothing serializes /convert calls on the nonce.  Each call signs the
\* pending count it fetched; of two calls that broadcast the same nonce the
\* network takes at most one, the other's broadcast can no longer be taken,
\* and a call whose broadcast was refused ends with the 500 response carrying
\* the error and waits for no confirmation.  (That two calls in flight
\* together do fetch and broadcast the same nonce is the witness.)
C14_NonceRace ==
    /\ \A c \in Slots :
         LET r == call[c]
         IN  /\ (IsConvert(r) /\ Did(r, "signTransaction"))
                  => r.tx.nonce = ValueOf(r, "getTransactionCount")
             /\ (IsConvert(r) /\ FailedAtBroadcast(r))
                  => /\ Sent(r, 500, [error |-> r.obs[Len(r.obs)].msg])
                     /\ ~Did(r, "wait")
    /\ \A a, d \in Slots :
         (a # d /\ SameNonceBroadcast(call[a], call[d]))
         => /\ ~(Got(call[a], "broadcastTransaction") /\ Got(call[d], "broadcastTransaction"))
            /\ (Got(call[a], "broadcastTransaction") /\ call[d].pc = "broadcastTransaction")
                 => call[d].tx.nonce < chainNonce

\* C14 witness: two calls in flight together have broadcast the same nonce;
\* the network took the earlier call's, which still waits for its
\* confirmation, and the later call has failed at broadcast with a 500.
C14_Witness ==
    \E a, d \in Slots :
      LET x == call[a]
          y == call[d]
      IN  /\ a # d /\ SameNonceBroadcast(x, y)
          /\ x.id < y.id
          /\ x.pc = "wait" /\ Got(x, "broadcastTransaction")
          /\ FailedAtBroadcast(y)
          /\ Sent(y, 500, [error |-> "nonce too low"])

\* The steps of a transfer, in the order of lines 54, 69, 70, 85, 89, 93.
TransferSteps ==
    << "getBalance", "getTransactionCount", "getFeeData",
       "signTransaction", "broadcastTransaction", "wait" >>
\* The calls the handler made after its bootstrap, in the order made.
StepsMade(r) == SelectSeq(r.log, LAMBDA op : op # "getBlockNumber")
IsPrefix(s, t) == Len(s) <= Len(t) /\ \A k \in DOMAIN s : s[k] = t[k]

\* C15: the calls a /convert call makes after its bootstrap are an initial
\* part of balance read, nonce fetch, fee fetch, sign, broadcast, wait, each
\* made once and only after the one before it returned; the success response
\* is sent only when the call's own transaction was broadcast and its wait
\* returned, and carries that transaction.
C15_StepsInOrder ==
    \A c \in Slots :
      LET r == call[c]
          made == StepsMade(r)
      IN  IsConvert(r)
          => /\ IsPrefix(made, TransferSteps)
             /\ \A k \in 2..Len(made) : Got(r, made[k - 1])
             /\ Cardinality({k \in DOMAIN r.obs : r.obs[k].op = "broadcastTransaction"}) <= 1
             /\ Succeeded(r)
                  => /\ made = TransferSteps
                     /\ Got(r, "broadcastTransaction") /\ Got(r, "wait")
                     /\ r.obs[Len(r.obs)].op = "wait"
                     /\ r.res[1].body.txHash = r.tx

\* C15 witness: a call that went through all six steps and answered success.
C15_Witness ==
    \E c \in Slots :
      LET r == call[c]
      IN  /\ IsConvert(r) /\ Succeeded(r)
          /\ StepsMade(r) = TransferSteps
          /\ Got(r, "wait")

\* The step replaces `provider`, and the request that does so is one that
\* found the handles as found(entry) says; before app.listen only the
\* startup run writes it.
ReplacedOnlyBy(providerOnly) ==
    provider' # provider
    => IF boot.pc # "listening"
         THEN provider'.by = 0 /\ served = 0
         ELSE \E c \in Slots :
                /\ InFlight(call'[c]) /\ call'[c].id = provider'.by
                /\ IF providerOnly
                     THEN ~call'[c].entry.provider
                     ELSE ~call'[c].entry.provider \/ ~call'[c].entry.wallet

\* C16 as stated: after startup, `provider` is replaced only by a request
\* that found `provider` null at line 48 or 121.
C16_ReplacedOnlyWhenProviderNull == [][ReplacedOnlyBy(TRUE)]_vars

\* C16 as amended: after startup, `provider` is replaced only by a request
\* that found `provider` or `wallet` null at line 48 or 121.
C16_ReplacedOnlyWhenHandleNull == [][ReplacedOnlyBy(FALSE)]_vars

\* C16 witness: `provider` holds the client of a request that found
\* `provider` set and `wallet` null.
C16_Witness ==
    \E c \in Slots :
      LET r == call[c]
      IN  /\ r.id > 0 /\ provider.by = r.id
          /\ r.entry.provider /\ ~r.entry.wallet

\* The candidates whose liveness check a request's run has seen answered, in
\* the order answered, and whether each passed.
ProbesOf(r) == SelectSeq(r.obs, LAMBDA o : o.op = "getBlockNumber")
\* One run of initProvider by `owner`: probed lists the candidates probed,
\* passed those of them whose check resolved, ret what the run returned.
\* The candidates are probed in list order; the run returns true at the
\* first that passes, leaving its client in `provider` and, with a key, a
\* wallet bound to it; it returns false when all have failed; and it
\* returns true exactly when some candidate passed.
RunInOrder(owner, probed, passed, ret) ==
    /\ \A k \in DOMAIN probed : probed[k] = k
    /\ passed = {j \in 1..Len(RPC_URLS) : Client(owner, j) \in verified}
    /\ ret = "pending" => passed = {}
    /\ ret = "true"
         => /\ passed = {Len(probed)}
            /\ provider = Client(owner, Len(probed))
            /\ wallet = IF hasKey THEN Wallet(owner, provider) ELSE NullW
    /\ ret = "false" => (passed = {} /\ Len(probed) = Len(RPC_URLS))

\* C17: a run of initProvider with no other run beside it (the startup run
\* before any request, and the run of the latest request, requests coming one
\* at a time) probes the candidates in list order, stops at the first whose
\* check passes, leaves that client in `provider` and, with a key
\* configured, a wallet bound to it, and returns true exactly when some
\* candidate passed and false otherwise.
C17_SingleBootstrapInOrder ==
    /\ served = 0
         => RunInOrder(0, boot.probed,
                       {j \in 1..Len(boot.probed) : boot.ret = "true" /\ j = boot.i}, boot.ret)
    /\ \A c \in Slots :
         LET r == call[c]
             ps == ProbesOf(r)
         IN  Did(r, "getBlockNumber")
             => /\ Cardinality({k \in DOMAIN r.log : r.log[k] = "getBlockNumber"})
                     = Len(ps) + (IF r.pc = "getBlockNumber" THEN 1 ELSE 0)
                /\ RunInOrder(r.id, [k \in DOMAIN ps |-> ps[k].val],
                              {ps[k].val : k \in {j \in DOMAIN ps : ps[j].ok}},
                              IF BootstrapSucceeded(r) THEN "true"
                              ELSE IF BootstrapFailed(r) THEN "false" ELSE "pending")
                /\ r.pc # "getBlockNumber" => Got(r, "initProvider")

\* C17 witness: the startup run, with a key, fails on the first two
\* candidates and passes on the third; the fourth is never probed.
C17_Witness ==
    /\ hasKey /\ served = 0
    /\ boot.ret = "true" /\ boot.probed = <<1, 2, 3>>
    /\ provider = Client(0, 3) /\ wallet = Wallet(0, Client(0, 3))
    /\ verified = {Client(0, 3)}

\* A /convert call is answered once: it has sent no response while it is
\* handled and exactly one when it is done.
AnsweredOnce(r) ==
    /\ InFlight(r) => r.res = <<>>
    /\ r.pc = "done" => Len(r.res) = 1
\* A response, once sent, is the request's for good: nothing is sent after it.
NothingSentAfter(c) ==
    (call[c].pc = "done" /\ call'[c].id = call[c].id) => call'[c].res = call[c].res

\* C18: a /convert call sends exactly one response on every path, sends
\* nothing after it, and, every awaited call returning or throwing in the
\* end, every /convert call that has arrived is answered, whatever runs
\* beside it.
C18_ExactlyOneResponse ==
    /\ [](\A c \in Slots : IsConvert(call[c]) => AnsweredOnce(call[c]))
    /\ [][\A c \in Slots : IsConvert(call[c]) => NothingSentAfter(c)]_vars
    /\ \A c \in Slots :
         (IsConvert(call[c]) /\ InFlight(call[c])) ~> (call[c].pc = "done")

\* C18 witness: a /convert call answered while another request is still in
\* the middle of its bootstrap.
C18_Witness ==
    \E c, d \in Slots :
      /\ IsConvert(call[c]) /\ call[c].pc = "done" /\ Len(call[c].res) = 1
      /\ Did(call[c], "getBalance")
      /\ call[d].pc = "getBlockNumber"
=============================================================================
